---- MODULE Spec2Model ----
(***************************************************************************)
(* Model of the empty-option crate (src/src/lib.rs): one Option<T> slot, *)
(* the two guards OptionGuard and OptionGuardMut that steal and      *)
(* steal_mut create over it, and a caller that drives them.              *)
(*                                                                         *)
(* An Option<T> is modelled as a sequence of length at most one:         *)
(* None is <<>> and Some(v) is <<v>>.                                  *)
(***************************************************************************)
EXTENDS Integers, Sequences, FiniteSets, TLC

\* Largest value of type T the caller uses.
MaxVal == 3

\* Number of guards the caller creates over the slot in one run.
MaxLifetimes == 3

Values == 1..MaxVal

None == <<>>

Some(v) == <<v>>

OptionT == {None} \cup {Some(v) : v \in Values}

\* Option::is_some
is_some(o) == Len(o) = 1

\* Option::unwrap / Option::expect on a populated option
unwrap(o) == o[1]

\* Option::take / mem::take: the option is left None, its old content is returned
take(o) == [self |-> None, ret |-> o]

\* Panic messages
MsgStealNone == "attempted to steal from None"

MsgNeverRestored == "Some value was never restored to a victimized Option!"

MsgUnwrapNone == "called Option::unwrap() on a None value"

MsgCaller == "assertion failed"

VARIABLES
  thing,     \* the slot: the caller's Option<T>
  guard,     \* the guard alive over the slot: "none", "OptionGuard", "OptionGuardMut"
  value,     \* OptionGuardMut.value, the guard's internal holder (None when no such guard)
  out,       \* the last T handed to the caller (by steal, deref, into_inner), as an Option
  pc,        \* the caller's position: "running", "into_inner", "unwinding", "panicked", "aborted"
  panics,    \* the panic messages raised so far, oldest first
  last,      \* the last operation: its name, its argument, the operation before it
  orig,      \* the content of the slot when the current (or latest) guard was created
  lifetime,  \* the number of guards created so far; the live guard is number lifetime
  restored,  \* the guards on which restore was called
  fatal,     \* the guards whose Drop raised MsgNeverRestored
  live,      \* the guards alive, i.e. holding the &mut borrow of the slot
  writes     \* the writes of the slot since the current (or latest) guard was created

vars == <<thing, guard, value, out, pc, panics, last, orig, lifetime, restored, fatal,
          live, writes>>

Ops == {"init", "steal", "restore", "steal_mut", "deref", "deref_mut",
        "into_inner", "drop", "drop_mut", "panic"}

Op(name, a) == [op |-> name, arg |-> a, prev |-> last.op]

TypeOK ==
  /\ thing \in OptionT
  /\ guard \in {"none", "OptionGuard", "OptionGuardMut"}
  /\ value \in OptionT
  /\ out \in OptionT
  /\ pc \in {"running", "into_inner", "unwinding", "panicked", "aborted"}
  /\ panics \in Seq({MsgStealNone, MsgNeverRestored, MsgUnwrapNone, MsgCaller})
  /\ last \in [op : Ops, arg : OptionT, prev : Ops]
  /\ orig \in OptionT
  /\ lifetime \in 0..MaxLifetimes
  /\ restored \subseteq 1..MaxLifetimes
  /\ fatal \subseteq 1..MaxLifetimes
  /\ live \subseteq 1..MaxLifetimes
  /\ writes \in 0..2

\* let mut thing = Some(5); -- or a slot that is already empty
Init ==
  /\ thing \in OptionT
  /\ guard = "none"
  /\ value = None
  /\ out = None
  /\ pc = "running"
  /\ panics = <<>>
  /\ last = [op |-> "init", arg |-> None, prev |-> "init"]
  /\ orig = None
  /\ lifetime = 0
  /\ restored = {}
  /\ fatal = {}
  /\ live = {}
  /\ writes = 0

\* steal that builds the guard before it checks the taken value: on an empty
\* slot the expect unwinds through the new guard
steal_guard_first ==
  /\ pc = "running"
  /\ guard = "none"
  /\ lifetime < MaxLifetimes
  /\ last' = Op("steal", None)
  /\ thing' = take(thing).self
  /\ orig' = thing
  /\ lifetime' = lifetime + 1
  /\ guard' = IF is_some(take(thing).ret) THEN "OptionGuard" ELSE "none"
  /\ IF is_some(take(thing).ret)
       THEN /\ out' = Some(unwrap(take(thing).ret))
            /\ UNCHANGED <<pc, panics, fatal>>
       ELSE /\ panics' = panics \o <<MsgStealNone, MsgNeverRestored>>
            /\ fatal' = fatal \cup {lifetime + 1}
            /\ pc' = "aborted"
            /\ UNCHANGED out
  /\ UNCHANGED <<value, restored>>
  /\ live' = IF is_some(take(thing).ret) THEN live \cup {lifetime + 1} ELSE live
  /\ writes' = IF is_some(take(thing).ret) THEN 0 ELSE writes

\* <Option<T> as EmptyOptionExt>::steal
steal ==
  /\ pc = "running"
  /\ guard = "none"
  /\ lifetime < MaxLifetimes
  /\ last' = Op("steal", None)
  /\ IF is_some(take(thing).ret)
       THEN /\ thing' = take(thing).self
            /\ out' = Some(unwrap(take(thing).ret))
            /\ guard' = "OptionGuard"
            /\ orig' = thing
            /\ lifetime' = lifetime + 1
            /\ UNCHANGED <<pc, panics>>
       ELSE /\ thing' = take(thing).self
            /\ panics' = Append(panics, MsgStealNone)
            /\ pc' = "panicked"
            /\ UNCHANGED <<out, guard, orig, lifetime>>
  /\ UNCHANGED <<value, restored, fatal>>
  /\ live' = IF is_some(take(thing).ret) THEN live \cup {lifetime + 1} ELSE live
  /\ writes' = IF is_some(take(thing).ret) THEN 0 ELSE writes

\* OptionGuard::restore that forgets the guard without writing the slot
restore_nowrite(obj) ==
  /\ pc = "running"
  /\ guard = "OptionGuard"
  /\ guard' = "none"
  /\ restored' = restored \cup {lifetime}
  /\ last' = Op("restore", Some(obj))
  /\ UNCHANGED <<thing, value, out, pc, panics, orig, lifetime, fatal>>
  /\ live' = live \ {lifetime}
  /\ UNCHANGED writes

\* OptionGuard::restore, with a restore that lets the guard drop
restore_dropping(obj) ==
  /\ pc = "running"
  /\ guard = "OptionGuard"
  /\ thing' = Some(obj)
  /\ guard' = "none"
  /\ restored' = restored \cup {lifetime}
  /\ panics' = Append(panics, MsgNeverRestored)
  /\ fatal' = fatal \cup {lifetime}
  /\ pc' = "panicked"
  /\ last' = Op("restore", Some(obj))
  /\ UNCHANGED <<value, out, orig, lifetime>>
  /\ live' = live \ {lifetime}
  /\ writes' = writes + 1

\* OptionGuard::restore
restore(obj) ==
  /\ pc = "running"
  /\ guard = "OptionGuard"
  /\ thing' = Some(obj)
  /\ guard' = "none"            \* mem::forget(self): the guard ends without Drop
  /\ restored' = restored \cup {lifetime}
  /\ last' = Op("restore", Some(obj))
  /\ UNCHANGED <<value, out, pc, panics, orig, lifetime, fatal>>
  /\ live' = live \ {lifetime}
  /\ writes' = writes + 1

\* <OptionGuard as Drop>::drop that panics only when no panic is unwinding
\* (if !thread::panicking() { panic!(..) })
DropOptionGuard_unless_panicking ==
  /\ pc \in {"running", "unwinding"}
  /\ guard = "OptionGuard"
  /\ guard' = "none"
  /\ last' = Op("drop", None)
  /\ IF pc = "unwinding"
       THEN /\ pc' = "panicked"
            /\ UNCHANGED <<panics, fatal>>
       ELSE /\ panics' = Append(panics, MsgNeverRestored)
            /\ fatal' = fatal \cup {lifetime}
            /\ pc' = "panicked"
  /\ UNCHANGED <<thing, value, out, orig, lifetime, restored>>
  /\ live' = live \ {lifetime}
  /\ UNCHANGED writes

\* <OptionGuard as Drop>::drop that lets an unrestored guard go silently
DropOptionGuard_silent ==
  /\ pc \in {"running", "unwinding"}
  /\ guard = "OptionGuard"
  /\ guard' = "none"
  /\ pc' = IF pc = "unwinding" THEN "panicked" ELSE "running"
  /\ last' = Op("drop", None)
  /\ UNCHANGED <<thing, value, out, panics, orig, lifetime, restored, fatal>>
  /\ live' = live \ {lifetime}
  /\ UNCHANGED writes

\* <OptionGuard as Drop>::drop: the guard leaves scope, in normal flow or
\* while a panic unwinds (a panic raised while unwinding aborts the process)
DropOptionGuard ==
  /\ pc \in {"running", "unwinding"}
  /\ guard = "OptionGuard"
  /\ panics' = Append(panics, MsgNeverRestored)
  /\ fatal' = fatal \cup {lifetime}
  /\ guard' = "none"
  /\ pc' = IF pc = "unwinding" THEN "aborted" ELSE "panicked"
  /\ last' = Op("drop", None)
  /\ UNCHANGED <<thing, value, out, orig, lifetime, restored>>
  /\ live' = live \ {lifetime}
  /\ UNCHANGED writes

\* steal_mut whose guard does not hold the borrow of the slot (a guard over a
\* raw pointer): it can be called while a guard is alive
steal_mut_unborrowed ==
  /\ pc = "running"
  /\ lifetime < MaxLifetimes
  /\ value' = take(thing).ret
  /\ thing' = take(thing).self
  /\ guard' = "OptionGuardMut"
  /\ orig' = thing
  /\ lifetime' = lifetime + 1
  /\ last' = Op("steal_mut", None)
  /\ UNCHANGED <<out, pc, panics, restored, fatal>>
  /\ live' = live \cup {lifetime + 1}
  /\ writes' = 0

\* steal_mut that copies the value out of the slot instead of taking it
steal_mut_clone ==
  /\ pc = "running"
  /\ guard = "none"
  /\ lifetime < MaxLifetimes
  /\ value' = thing
  /\ guard' = "OptionGuardMut"
  /\ orig' = thing
  /\ lifetime' = lifetime + 1
  /\ last' = Op("steal_mut", None)
  /\ UNCHANGED <<thing, out, pc, panics, restored, fatal>>
  /\ live' = live \cup {lifetime + 1}
  /\ writes' = 0

\* steal_mut with the precondition of steal
steal_mut_strict ==
  /\ pc = "running"
  /\ guard = "none"
  /\ lifetime < MaxLifetimes
  /\ last' = Op("steal_mut", None)
  /\ thing' = take(thing).self
  /\ IF is_some(take(thing).ret)
       THEN /\ value' = take(thing).ret
            /\ guard' = "OptionGuardMut"
            /\ orig' = thing
            /\ lifetime' = lifetime + 1
            /\ UNCHANGED <<pc, panics>>
       ELSE /\ panics' = Append(panics, MsgStealNone)
            /\ pc' = "panicked"
            /\ UNCHANGED <<value, guard, orig, lifetime>>
  /\ UNCHANGED <<out, restored, fatal>>
  /\ live' = IF is_some(take(thing).ret) THEN live \cup {lifetime + 1} ELSE live
  /\ writes' = IF is_some(take(thing).ret) THEN 0 ELSE writes

\* <Option<T> as EmptyOptionExt>::steal_mut
steal_mut ==
  /\ pc = "running"
  /\ guard = "none"
  /\ lifetime < MaxLifetimes
  /\ value' = take(thing).ret
  /\ thing' = take(thing).self
  /\ guard' = "OptionGuardMut"
  /\ orig' = thing
  /\ lifetime' = lifetime + 1
  /\ last' = Op("steal_mut", None)
  /\ UNCHANGED <<out, pc, panics, restored, fatal>>
  /\ live' = live \cup {lifetime + 1}
  /\ writes' = 0

\* deref that takes the value out of the holder to read it
deref_taking ==
  /\ pc = "running"
  /\ guard = "OptionGuardMut"
  /\ last' = Op("deref", None)
  /\ value' = take(value).self
  /\ IF is_some(take(value).ret)
       THEN /\ out' = Some(unwrap(take(value).ret))
            /\ UNCHANGED <<pc, panics>>
       ELSE /\ panics' = Append(panics, MsgUnwrapNone)
            /\ pc' = "unwinding"
            /\ UNCHANGED out
  /\ UNCHANGED <<thing, guard, orig, lifetime, restored, fatal>>
  /\ UNCHANGED <<live, writes>>

\* <OptionGuardMut as Deref>::deref
deref ==
  /\ pc = "running"
  /\ guard = "OptionGuardMut"
  /\ last' = Op("deref", None)
  /\ IF is_some(value)
       THEN /\ out' = Some(unwrap(value))
            /\ UNCHANGED <<pc, panics>>
       ELSE /\ panics' = Append(panics, MsgUnwrapNone)
            /\ pc' = "unwinding"
            /\ UNCHANGED out
  /\ UNCHANGED <<thing, guard, value, orig, lifetime, restored, fatal>>
  /\ UNCHANGED <<live, writes>>

\* deref_mut that hands out a reference to a copy: the write is lost
deref_mut_lost(obj) ==
  /\ pc = "running"
  /\ guard = "OptionGuardMut"
  /\ last' = Op("deref_mut", Some(obj))
  /\ IF is_some(value)
       THEN UNCHANGED <<pc, panics>>
       ELSE /\ panics' = Append(panics, MsgUnwrapNone)
            /\ pc' = "unwinding"
  /\ UNCHANGED <<thing, guard, value, out, orig, lifetime, restored, fatal>>
  /\ UNCHANGED <<live, writes>>

\* deref_mut that fills an empty holder instead of panicking
deref_mut_insert(obj) ==
  /\ pc = "running"
  /\ guard = "OptionGuardMut"
  /\ last' = Op("deref_mut", Some(obj))
  /\ value' = Some(obj)
  /\ UNCHANGED <<thing, guard, out, pc, panics, orig, lifetime, restored, fatal>>
  /\ UNCHANGED <<live, writes>>

\* <OptionGuardMut as DerefMut>::deref_mut and the caller's write through
\* the returned &mut T (*stolen = obj)
deref_mut(obj) ==
  /\ pc = "running"
  /\ guard = "OptionGuardMut"
  /\ last' = Op("deref_mut", Some(obj))
  /\ IF is_some(value)
       THEN /\ value' = Some(obj)
            /\ UNCHANGED <<pc, panics>>
       ELSE /\ panics' = Append(panics, MsgUnwrapNone)
            /\ pc' = "unwinding"
            /\ UNCHANGED value
  /\ UNCHANGED <<thing, guard, out, orig, lifetime, restored, fatal>>
  /\ UNCHANGED <<live, writes>>

\* into_inner that also clears the slot itself (*self.origin = None) before
\* the drop of self writes it
into_inner_clearing ==
  /\ pc = "running"
  /\ guard = "OptionGuardMut"
  /\ last' = Op("into_inner", None)
  /\ value' = take(value).self
  /\ thing' = None
  /\ writes' = writes + 1
  /\ IF is_some(take(value).ret)
       THEN /\ out' = Some(unwrap(take(value).ret))
            /\ pc' = "into_inner"
            /\ UNCHANGED panics
       ELSE /\ panics' = Append(panics, MsgUnwrapNone)
            /\ pc' = "unwinding"
            /\ UNCHANGED out
  /\ UNCHANGED <<guard, orig, lifetime, restored, fatal, live>>

\* into_inner that copies the held value out and leaves the holder populated
into_inner_peek ==
  /\ pc = "running"
  /\ guard = "OptionGuardMut"
  /\ last' = Op("into_inner", None)
  /\ IF is_some(value)
       THEN /\ out' = Some(unwrap(value))
            /\ pc' = "into_inner"
            /\ UNCHANGED panics
       ELSE /\ panics' = Append(panics, MsgUnwrapNone)
            /\ pc' = "unwinding"
            /\ UNCHANGED out
  /\ UNCHANGED <<thing, guard, value, orig, lifetime, restored, fatal>>
  /\ UNCHANGED <<live, writes>>

\* OptionGuardMut::into_inner up to the end of its body: self is still
\* alive there and is dropped next, on return or while the unwrap unwinds
into_inner ==
  /\ pc = "running"
  /\ guard = "OptionGuardMut"
  /\ last' = Op("into_inner", None)
  /\ value' = take(value).self
  /\ IF is_some(take(value).ret)
       THEN /\ out' = Some(unwrap(take(value).ret))
            /\ pc' = "into_inner"
            /\ UNCHANGED panics
       ELSE /\ panics' = Append(panics, MsgUnwrapNone)
            /\ pc' = "unwinding"
            /\ UNCHANGED out
  /\ UNCHANGED <<thing, guard, orig, lifetime, restored, fatal>>
  /\ UNCHANGED <<live, writes>>

\* <OptionGuardMut as Drop>::drop that returns the value only when no panic
\* is unwinding (if !thread::panicking() { .. })
DropOptionGuardMut_unless_panicking ==
  /\ pc \in {"running", "into_inner", "unwinding"}
  /\ guard = "OptionGuardMut"
  /\ guard' = "none"
  /\ last' = Op("drop_mut", value)
  /\ pc' = IF pc = "unwinding" THEN "panicked" ELSE "running"
  /\ IF pc = "unwinding"
       THEN UNCHANGED <<thing, value, writes>>
       ELSE /\ thing' = take(value).ret
            /\ value' = take(value).self
            /\ writes' = writes + 1
  /\ UNCHANGED <<out, panics, orig, lifetime, restored, fatal>>
  /\ live' = live \ {lifetime}

\* <OptionGuardMut as Drop>::drop that empties the holder without writing the slot
DropOptionGuardMut_leak ==
  /\ pc \in {"running", "into_inner", "unwinding"}
  /\ guard = "OptionGuardMut"
  /\ value' = take(value).self
  /\ guard' = "none"
  /\ pc' = IF pc = "unwinding" THEN "panicked" ELSE "running"
  /\ last' = Op("drop_mut", value)
  /\ UNCHANGED <<thing, out, panics, orig, lifetime, restored, fatal, writes>>
  /\ live' = live \ {lifetime}

\* <OptionGuardMut as Drop>::drop that unwraps the holder before writing it back
DropOptionGuardMut_unwrap ==
  /\ pc \in {"running", "into_inner", "unwinding"}
  /\ guard = "OptionGuardMut"
  /\ value' = take(value).self
  /\ guard' = "none"
  /\ last' = Op("drop_mut", value)
  /\ IF is_some(take(value).ret)
       THEN /\ thing' = Some(unwrap(take(value).ret))
            /\ pc' = (IF pc = "unwinding" THEN "panicked" ELSE "running")
            /\ UNCHANGED panics
       ELSE /\ panics' = Append(panics, MsgUnwrapNone)
            /\ pc' = (IF pc = "unwinding" THEN "aborted" ELSE "panicked")
            /\ UNCHANGED thing
  /\ UNCHANGED <<out, orig, lifetime, restored, fatal>>
  /\ live' = live \ {lifetime}
  /\ writes' = IF is_some(take(value).ret) THEN writes + 1 ELSE writes

\* <OptionGuardMut as Drop>::drop: the guard leaves scope in the caller, at
\* the end of into_inner, or while a panic unwinds
DropOptionGuardMut ==
  /\ pc \in {"running", "into_inner", "unwinding"}
  /\ guard = "OptionGuardMut"
  /\ thing' = take(value).ret
  /\ value' = take(value).self
  /\ guard' = "none"
  /\ pc' = IF pc = "unwinding" THEN "panicked" ELSE "running"
  /\ last' = Op("drop_mut", value)
  /\ UNCHANGED <<out, panics, orig, lifetime, restored, fatal>>
  /\ live' = live \ {lifetime}
  /\ writes' = writes + 1

\* A failure of the caller's own (assert_eq!(five, 5), assert_eq!(*stolen, 5))
\* while a guard is alive: the panic unwinds through the guard's scope
CallerPanic ==
  /\ pc = "running"
  /\ guard # "none"
  /\ panics' = Append(panics, MsgCaller)
  /\ pc' = "unwinding"
  /\ last' = Op("panic", None)
  /\ UNCHANGED <<thing, guard, value, out, orig, lifetime, restored, fatal>>
  /\ UNCHANGED <<live, writes>>

Next ==
  \/ steal
  \/ \E obj \in Values : restore(obj)
  \/ DropOptionGuard
  \/ steal_mut
  \/ deref
  \/ \E obj \in Values : deref_mut(obj)
  \/ into_inner
  \/ DropOptionGuardMut
  \/ CallerPanic

Spec == Init /\ [][Next]_vars

\* Scopes end and unwinding proceeds: a guard that can be dropped is dropped
FairSpec == Spec /\ WF_vars(DropOptionGuard) /\ WF_vars(DropOptionGuardMut)

(***************************************************************************)
(* Helpers of the properties                                               *)
(***************************************************************************)

\* How many times the panic msg was raised
Raised(msg) == Cardinality({i \in DOMAIN panics : panics[i] = msg})

\* The same count in the next state
RaisedNext(msg) == Cardinality({i \in DOMAIN panics' : panics'[i] = msg})

\* The live OptionGuardMut was moved into into_inner
Consumed == guard = "OptionGuardMut" /\ last.op = "into_inner"

\* The positions from which the caller runs no further step
Terminated == pc \in {"panicked", "aborted"}

(***************************************************************************)
(* Properties                                                              *)
(***************************************************************************)

\* C1: steal on a slot holding Some(v) hands v to the caller, and a following
\* restore(v2) on the returned guard leaves the slot holding exactly Some(v2),
\* whether v2 equals v or not.
C1_RoundTrip ==
  /\ (last.op = "steal" /\ guard = "OptionGuard" =>
        is_some(orig) /\ out = orig /\ thing = None)
  /\ (last.op = "restore" =>
        is_some(orig) /\ out = orig /\ thing = last.arg /\ is_some(last.arg))

C1_Witness ==
  /\ last.op = "restore"
  /\ last.prev = "steal"
  /\ out = orig
  /\ thing = last.arg
  /\ thing # orig

\* C2: an OptionGuard whose lifetime ends without restore raises the
\* never-restored panic exactly once, at the step that ends the guard, and the
\* caller runs no step after it.
C2_MustRestore ==
  /\ [][guard = "OptionGuard" /\ guard' # "OptionGuard" /\ lifetime \notin restored' =>
          /\ RaisedNext(MsgNeverRestored) = Raised(MsgNeverRestored) + 1
          /\ fatal' = fatal \cup {lifetime}
          /\ pc' \in {"panicked", "aborted"}]_vars
  /\ [](Raised(MsgNeverRestored) > 0 =>
          /\ Raised(MsgNeverRestored) = 1
          /\ panics[Len(panics)] = MsgNeverRestored
          /\ last.op = "drop"
          /\ Terminated)
  /\ [][Terminated => UNCHANGED vars]_vars

C2_Witness ==
  /\ last.op = "drop"
  /\ last.prev = "steal"
  /\ panics = <<MsgNeverRestored>>
  /\ fatal = {lifetime}
  /\ pc = "panicked"

\* C3: a guard on which restore was called never raises the never-restored
\* panic: no guard is both restored and fatal, and restore itself returns
\* normally with the guard gone.
C3_RestoreDischarges ==
  /\ restored \cap fatal = {}
  /\ (last.op = "restore" => guard = "none" /\ pc = "running" /\ panics = <<>>)

C3_Witness ==
  /\ restored # {}
  /\ fatal # {}
  /\ last.op = "drop"
  /\ lifetime \notin restored

\* C4: on a slot holding Some(v), the guard of steal_mut reads as v; after a
\* write of v2 through the guard, the guard's end without into_inner leaves the
\* slot holding exactly Some(v2), and no panic was raised.
C4_AutoReturnDefault ==
  [][/\ (is_some(orig) /\ last.op = "steal_mut" /\ last'.op = "deref" =>
           out' = orig /\ panics' = <<>> /\ pc' = "running")
     /\ (is_some(orig) /\ last.op = "deref_mut" /\ last'.op = "drop_mut" =>
           thing' = last.arg /\ guard' = "none" /\ panics' = <<>> /\ pc' = "running")]_vars

C4_Witness ==
  /\ last.op = "drop_mut"
  /\ last.prev = "deref_mut"
  /\ is_some(orig)
  /\ is_some(thing)
  /\ thing # orig
  /\ thing = last.arg
  /\ panics = <<>>

\* C5: on a slot holding Some(v), steal_mut followed by into_inner hands v to
\* the caller, and once the guard has ended the slot holds None, with no panic.
C5_AutoReturnKeep ==
  /\ [][is_some(orig) /\ last.op = "steal_mut" /\ last'.op = "into_inner" =>
          out' = orig /\ panics' = <<>>]_vars
  /\ [](is_some(orig) /\ last.op = "drop_mut" /\ last.prev = "into_inner" =>
          thing = None /\ guard = "none" /\ panics = <<>> /\ pc = "running")

C5_Witness ==
  /\ last.op = "drop_mut"
  /\ last.prev = "into_inner"
  /\ is_some(orig)
  /\ out = orig
  /\ thing = None
  /\ guard = "none"
  /\ pc = "running"

\* C6: steal on an empty slot raises the precondition panic, creates no guard
\* (so no never-restored panic follows) and leaves the slot empty.
C6_StealPrecondition ==
  /\ [][last'.op = "steal" /\ guard = "none" /\ thing = None =>
          /\ panics' = Append(panics, MsgStealNone)
          /\ pc' = "panicked"
          /\ guard' = "none"
          /\ thing' = None
          /\ lifetime' = lifetime
          /\ fatal' = fatal]_vars
  /\ [](Raised(MsgStealNone) > 0 =>
          /\ panics = <<MsgStealNone>>
          /\ guard = "none"
          /\ thing = None
          /\ pc = "panicked")

C6_Witness ==
  /\ last.op = "steal"
  /\ panics = <<MsgStealNone>>
  /\ guard = "none"
  /\ thing = None
  /\ pc = "panicked"

\* C7, as the specification states it: while an OptionGuardMut is alive,
\* exactly one of {its holder is populated, it was consumed by into_inner}
\* is true.
C7_HolderXorConsumed ==
  guard = "OptionGuardMut" => (is_some(value) # Consumed)

\* C7, amended: the same for a guard that steal_mut created on a slot holding a
\* value; a guard created on an empty slot has an empty holder, consumed or not.
C7_HolderXorConsumedFromSome ==
  /\ (guard = "OptionGuardMut" /\ is_some(orig) => (is_some(value) # Consumed))
  /\ (guard = "OptionGuardMut" /\ orig = None => value = None)

C7_Witness ==
  /\ guard = "OptionGuardMut"
  /\ is_some(orig)
  /\ Consumed
  /\ value = None
  /\ pc = "into_inner"

\* C8: whenever an OptionGuardMut ends, with its holder populated or empty, the
\* slot is set to exactly the holder's content and the guard's drop raises no
\* panic.
C8_DropMutWritesHolder ==
  [][guard = "OptionGuardMut" /\ guard' # "OptionGuardMut" =>
       /\ thing' = value
       /\ panics' = panics
       /\ pc' = (IF pc = "unwinding" THEN "panicked" ELSE "running")
       /\ fatal' = fatal]_vars

C8_Witness ==
  /\ last.op = "drop_mut"
  /\ guard = "none"
  /\ is_some(last.arg)
  /\ thing = last.arg
  /\ last.arg # orig
  /\ pc = "running"

\* C9: steal_mut never panics, whatever the slot holds; on an empty slot it
\* yields a guard with an empty holder, and when that guard ends without any
\* access the slot still holds None.
C9_StealMutPermissive ==
  [][/\ (last'.op = "steal_mut" /\ guard = "none" =>
           /\ panics' = panics
           /\ pc' = "running"
           /\ guard' = "OptionGuardMut"
           /\ value' = thing
           /\ thing' = None)
     /\ (orig = None /\ last.op = "steal_mut" /\ last'.op = "drop_mut" =>
           thing' = None /\ guard' = "none" /\ panics' = <<>> /\ pc' = "running")]_vars

C9_Witness ==
  /\ last.op = "drop_mut"
  /\ last.prev = "steal_mut"
  /\ orig = None
  /\ thing = None
  /\ guard = "none"
  /\ panics = <<>>
  /\ pc = "running"

\* C10: on an OptionGuardMut whose holder is empty, deref, deref_mut and
\* into_inner each panic instead of producing a value, and after that panic
\* the slot holds None.
C10_AccessOnEmpty ==
  /\ [][/\ guard = "OptionGuardMut" /\ value = None /\ pc = "running"
        /\ last'.op \in {"deref", "deref_mut", "into_inner"}
        => /\ panics' = Append(panics, MsgUnwrapNone)
           /\ pc' = "unwinding"
           /\ out' = out
           /\ value' = None
           /\ thing' = None]_vars
  /\ [](Raised(MsgUnwrapNone) > 0 =>
          /\ panics = <<MsgUnwrapNone>>
          /\ thing = None
          /\ value = None
          /\ pc \in {"unwinding", "panicked"})

C10_Witness ==
  /\ panics = <<MsgUnwrapNone>>
  /\ last.op = "drop_mut"
  /\ last.prev \in {"deref", "deref_mut", "into_inner"}
  /\ thing = None
  /\ guard = "none"
  /\ pc = "panicked"

\* C11: an OptionGuard that is alive and unrestored when a failure of the
\* caller unwinds through its scope still raises the never-restored panic: the
\* only step from there is its drop, which panics, and that step is taken.
C11_FatalOnUnwind ==
  /\ [][guard = "OptionGuard" /\ pc = "unwinding" =>
          /\ last'.op = "drop"
          /\ panics' = Append(panics, MsgNeverRestored)
          /\ fatal' = fatal \cup {lifetime}
          /\ guard' = "none"]_vars
  /\ \A g \in 1..MaxLifetimes :
       (guard = "OptionGuard" /\ pc = "unwinding" /\ lifetime = g)
         ~> (g \in fatal /\ Raised(MsgNeverRestored) = 1)

C11_Witness ==
  /\ last.op = "drop"
  /\ last.prev = "panic"
  /\ panics = <<MsgCaller, MsgNeverRestored>>
  /\ lifetime \in fatal
  /\ lifetime \notin restored
  /\ guard = "none"

\* C12: an OptionGuardMut that holds x and was not consumed by into_inner
\* returns x to the slot however its scope ends: by a return of the caller
\* (normal or early) or while a failure elsewhere unwinds, and the unwinding
\* does reach that return.
C12_AutoRestoreEveryExit ==
  /\ [][/\ guard = "OptionGuardMut" /\ is_some(value) /\ ~Consumed
        /\ pc \in {"running", "unwinding"} /\ guard' # "OptionGuardMut"
        => thing' = value /\ is_some(thing') /\ guard' = "none"]_vars
  /\ \A x \in Values :
       (guard = "OptionGuardMut" /\ value = Some(x) /\ pc = "unwinding")
         ~> (guard = "none" /\ thing = Some(x) /\ pc = "panicked")

C12_Witness ==
  /\ last.op = "drop_mut"
  /\ last.prev = "panic"
  /\ is_some(thing)
  /\ thing = last.arg
  /\ thing # orig
  /\ guard = "none"
  /\ pc = "panicked"

\* The caller took the value of the current (or latest) OptionGuardMut by
\* into_inner
Kept == last.op = "into_inner" \/ (last.op = "drop_mut" /\ last.prev = "into_inner")

\* Between two guard lifetimes: a guard was created and ended, the caller runs on
Quiescent == guard = "none" /\ pc = "running" /\ lifetime > 0

\* 1 when the condition holds, 0 otherwise
Ind(b) == IF b THEN 1 ELSE 0

\* C13: from the creation of a guard to its end the slot is written at most
\* once; the write is restore or the drop of an OptionGuardMut, which both end
\* the guard; deref, deref_mut and the body of into_inner do not write the slot.
C13_SingleWrite ==
  /\ [](writes <= 1 /\ (live # {} => writes = 0))
  /\ [][live # {} /\ writes' # writes =>
          /\ last'.op \in {"restore", "drop_mut"}
          /\ writes' = 1
          /\ live' = {}]_vars
  /\ [][live # {} /\ last'.op \in {"deref", "deref_mut", "into_inner"} =>
          thing' = thing /\ writes' = writes]_vars

C13_Witness ==
  /\ writes = 1
  /\ last.op = "drop_mut"
  /\ last.prev = "into_inner"
  /\ is_some(orig)
  /\ thing = None
  /\ live = {}

\* C14: at most one guard is alive over the slot, and steal and steal_mut are
\* applied only while no guard is alive.
C14_Exclusivity ==
  /\ [](/\ Cardinality(live) <= 1
        /\ (guard = "none" <=> live = {})
        /\ (live # {} => live = {lifetime}))
  /\ [][last'.op \in {"steal", "steal_mut"} => live = {} /\ guard = "none"]_vars

C14_Witness ==
  /\ live = {lifetime}
  /\ lifetime >= 2
  /\ guard = "OptionGuard"
  /\ last.op = "steal"

\* C15: while an OptionGuard or an OptionGuardMut is alive, the slot holds None.
C15_SlotEmptyWhileGuarded ==
  (guard # "none" \/ live # {}) => thing = None

C15_Witness ==
  /\ guard = "OptionGuardMut"
  /\ last.op = "deref_mut"
  /\ is_some(orig)
  /\ is_some(value)
  /\ thing = None

\* C16: on an OptionGuardMut whose holder holds a value, deref hands out the
\* holder's value and changes nothing, deref_mut changes only the holder's
\* value; both leave the slot None and the guard alive and holding.
C16_AccessSelfLoops ==
  [][/\ (guard = "OptionGuardMut" /\ is_some(value) /\ last'.op = "deref" =>
           /\ out' = value
           /\ UNCHANGED <<thing, guard, value, pc, panics, orig, lifetime, live, writes>>
           /\ thing' = None)
     /\ (guard = "OptionGuardMut" /\ is_some(value) /\ last'.op = "deref_mut" =>
           /\ value' = last'.arg
           /\ is_some(value')
           /\ UNCHANGED <<thing, guard, out, pc, panics, orig, lifetime, live, writes>>
           /\ thing' = None)]_vars

C16_Witness ==
  /\ last.op = "deref"
  /\ last.prev = "deref_mut"
  /\ guard = "OptionGuardMut"
  /\ is_some(value)
  /\ out = value
  /\ value # orig
  /\ thing = None
  /\ pc = "running"

\* C17: in every state of a steal_mut lifetime that started on Some(v), up to
\* and including the state in which the guard has ended, the stolen value is in
\* exactly one of the slot, the guard's holder and the caller (after
\* into_inner); slot and holder are never both populated.
C17_ValueConservation ==
  (is_some(orig) /\ (guard = "OptionGuardMut" \/ last.op = "drop_mut")) =>
     /\ Ind(is_some(thing)) + Ind(is_some(value)) + Ind(Kept) = 1
     /\ ~(is_some(thing) /\ is_some(value))
     /\ (Kept => is_some(out))

C17_Witness ==
  /\ is_some(orig)
  /\ last.op = "drop_mut"
  /\ last.prev = "into_inner"
  /\ is_some(out)
  /\ out # orig
  /\ thing = None
  /\ value = None

\* C18: between guard lifetimes that ended without a panic, the slot holds
\* Some(x) exactly when the latest lifetime ended by restore(x) or by the drop
\* of a holder containing x, and None exactly when it ended by into_inner or by
\* the drop of an empty holder; a steal issued right after an into_inner
\* lifetime panics on its precondition, a steal_mut issued there succeeds with
\* an empty holder.
C18_SlotAcrossLifetimes ==
  /\ [](Quiescent =>
          /\ last.op \in {"restore", "drop_mut"}
          /\ (is_some(thing) <=>
                (last.op = "restore" \/ (last.op = "drop_mut" /\ is_some(last.arg) /\ ~Kept)))
          /\ (is_some(thing) => thing = last.arg)
          /\ (thing = None <=> (Kept \/ (last.op = "drop_mut" /\ last.arg = None))))
  /\ [][Quiescent /\ Kept /\ last'.op = "steal" =>
          /\ panics' = <<MsgStealNone>>
          /\ pc' = "panicked"
          /\ guard' = "none"
          /\ thing' = None]_vars
  /\ [][Quiescent /\ Kept /\ last'.op = "steal_mut" =>
          /\ guard' = "OptionGuardMut"
          /\ value' = None
          /\ panics' = <<>>
          /\ pc' = "running"]_vars

C18_Witness ==
  /\ last.op = "steal"
  /\ last.prev = "drop_mut"
  /\ panics = <<MsgStealNone>>
  /\ restored # {}
  /\ lifetime = 2
  /\ is_some(out)
  /\ thing = None


====
